---- MODULE Spec2Model ----
(***************************************************************************)
(* calculate-uploadthiing-costs.py: estimate_uploadthing_cost and the      *)
(* module-level call that prints its result.                               *)
(*                                                                         *)
(* Python numbers are modelled by value.  An int is arbitrary precision; a *)
(* float is an IEEE 754 binary64 (53-bit significand, exponents -1074 ..   *)
(* 1023, signed zeros, infinities, NaN) and every float operation rounds   *)
(* its exact result to nearest, ties to even.  Magnitudes are natural      *)
(* numbers held as little-endian sequences of limbs, because a 53-bit      *)
(* significand does not fit the model checker's machine integers.          *)
(***************************************************************************)
EXTENDS Integers, Sequences, FiniteSets, TLC

(***************************************************************************)
(* Natural numbers of any size: <<>> is 0, a[1] is the least significant   *)
(* limb, the last limb is never 0.  The limb operations recurse on halves  *)
(* of the limb range, the carry (borrow, remainder) of the half done first *)
(* going into the other, so that an operand of some hundred limbs nests    *)
(* only a few evaluations deep.  An intermediate value that is used more   *)
(* than once is handed to an operator as its argument.                     *)
(***************************************************************************)
LimbBits == 3 * 5
Base == 2^LimbBits

Max(x, y) == IF x >= y THEN x ELSE y
Min(x, y) == IF x <= y THEN x ELSE y

\* a without its most significant zero limbs
Trim(a) ==
    IF \A i \in 1..Len(a) : a[i] = 0 THEN <<>>
    ELSE SubSeq(a, 1, CHOOSE i \in 1..Len(a) :
                          a[i] # 0 /\ \A j \in (i + 1)..Len(a) : a[j] = 0)

RECURSIVE NatToBig(_)
NatToBig(n) == IF n = 0 THEN <<>> ELSE <<n % Base>> \o NatToBig(n \div Base)

Limb(a, i) == IF i >= 1 /\ i <= Len(a) THEN a[i] ELSE 0

\* one limb x (which may exceed Base) as a limb and a carry
Carry(x) == [v |-> <<x % Base>>, c |-> x \div Base]

\* limbs and a final carry, as a number
WithCarry(r) == IF r.c = 0 THEN r.v ELSE Append(r.v, r.c)

RECURSIVE AddLimbs(_, _, _, _, _)
AddLimbs(a, b, lo, hi, c) ==
    IF lo > hi THEN [v |-> <<>>, c |-> c]
    ELSE IF lo = hi THEN Carry(Limb(a, lo) + Limb(b, lo) + c)
    ELSE LET mid == (lo + hi) \div 2
             L == AddLimbs(a, b, lo, mid, c)
             H == AddLimbs(a, b, mid + 1, hi, L.c)
         IN  [v |-> L.v \o H.v, c |-> H.c]

BigAdd(a, b) == WithCarry(AddLimbs(a, b, 1, Max(Len(a), Len(b)), 0))

\* one limb x (which may be negative) as a limb and a borrow
Borrow(x) == IF x < 0 THEN [v |-> <<x + Base>>, c |-> 1] ELSE [v |-> <<x>>, c |-> 0]

RECURSIVE SubLimbs(_, _, _, _, _)
SubLimbs(a, b, lo, hi, c) ==
    IF lo > hi THEN [v |-> <<>>, c |-> c]
    ELSE IF lo = hi THEN Borrow(a[lo] - Limb(b, lo) - c)
    ELSE LET mid == (lo + hi) \div 2
             L == SubLimbs(a, b, lo, mid, c)
             H == SubLimbs(a, b, mid + 1, hi, L.c)
         IN  [v |-> L.v \o H.v, c |-> H.c]

\* a - b for a >= b
BigSub(a, b) == Trim(SubLimbs(a, b, 1, Len(a), 0).v)

RECURSIVE CmpLimbs(_, _, _, _)
CmpLimbs(a, b, lo, hi) ==
    IF lo > hi THEN 0
    ELSE IF lo = hi
    THEN (IF a[lo] < b[lo] THEN -1 ELSE IF a[lo] > b[lo] THEN 1 ELSE 0)
    ELSE LET H == CmpLimbs(a, b, (lo + hi) \div 2 + 1, hi)
         IN  IF H # 0 THEN H ELSE CmpLimbs(a, b, lo, (lo + hi) \div 2)

\* -1, 0, 1 as a < b, a = b, a > b
BigCmp(a, b) ==
    IF Len(a) < Len(b) THEN -1
    ELSE IF Len(a) > Len(b) THEN 1
    ELSE CmpLimbs(a, b, 1, Len(a))

RECURSIVE MulSmallLimbs(_, _, _, _, _)
MulSmallLimbs(a, k, lo, hi, c) ==
    IF lo > hi THEN [v |-> <<>>, c |-> c]
    ELSE IF lo = hi THEN Carry(a[lo] * k + c)
    ELSE LET mid == (lo + hi) \div 2
             L == MulSmallLimbs(a, k, lo, mid, c)
             H == MulSmallLimbs(a, k, mid + 1, hi, L.c)
         IN  [v |-> L.v \o H.v, c |-> H.c]

\* a * k for 0 <= k <= Base
BigMulSmall(a, k) == Trim(WithCarry(MulSmallLimbs(a, k, 1, Len(a), 0)))

ZeroLimbs(n) == [i \in 1..n |-> 0]

\* row * Base^n
PlaceRow(row, n) == IF row = <<>> THEN <<>> ELSE ZeroLimbs(n) \o row

\* the sum of a * b[i] * Base^(i - 1) over i in lo..hi
RECURSIVE MulLimbs(_, _, _, _)
MulLimbs(a, b, lo, hi) ==
    IF lo > hi THEN <<>>
    ELSE IF lo = hi THEN PlaceRow(BigMulSmall(a, b[lo]), lo - 1)
    ELSE BigAdd(MulLimbs(a, b, lo, (lo + hi) \div 2),
                MulLimbs(a, b, (lo + hi) \div 2 + 1, hi))

BigMul(a, b) == IF a = <<>> \/ b = <<>> THEN <<>> ELSE MulLimbs(a, b, 1, Len(b))

\* one step of long division by d: the remainder so far and the next limb
DivStep(x, d) == [v |-> <<x \div d>>, r |-> x % d]

\* Long division by 1 <= d <= Base, from the most significant limb down:
\* v holds the quotient's limbs most significant first, r the remainder.
RECURSIVE DivSmallLimbs(_, _, _, _, _)
DivSmallLimbs(a, d, lo, hi, r) ==
    IF lo > hi THEN [v |-> <<>>, r |-> r]
    ELSE IF lo = hi THEN DivStep(r * Base + a[lo], d)
    ELSE LET mid == (lo + hi) \div 2
             H == DivSmallLimbs(a, d, mid + 1, hi, r)
             L == DivSmallLimbs(a, d, lo, mid, H.r)
         IN  [v |-> H.v \o L.v, r |-> L.r]

Reverse(v) == [i \in 1..Len(v) |-> v[Len(v) + 1 - i]]

\* [q, r]: a = q * d + r, 0 <= r < d, for 1 <= d <= Base
Quotient(res) == [q |-> Trim(Reverse(res.v)), r |-> res.r]

BigDivSmall(a, d) == Quotient(DivSmallLimbs(a, d, 1, Len(a), 0))

RECURSIVE SmallBitLength(_)
SmallBitLength(n) == IF n = 0 THEN 0 ELSE 1 + SmallBitLength(n \div 2)

BitLength(a) ==
    IF a = <<>> THEN 0 ELSE (Len(a) - 1) * LimbBits + SmallBitLength(a[Len(a)])

\* a * 2^n
ShiftLeft(a, n) ==
    IF a = <<>> THEN <<>>
    ELSE ZeroLimbs(n \div LimbBits) \o BigMulSmall(a, 2^(n % LimbBits))

\* floor(a / 2^n)
ShiftRight(a, n) ==
    IF n \div LimbBits >= Len(a) THEN <<>>
    ELSE BigDivSmall(SubSeq(a, n \div LimbBits + 1, Len(a)), 2^(n % LimbBits)).q

\* bit i of a, bit 0 the least significant
Bit(a, i) == (Limb(a, i \div LimbBits + 1) \div 2^(i % LimbBits)) % 2

\* a mod 2^n # 0
AnyLowBits(a, n) ==
    \/ \E i \in 1..Min(n \div LimbBits, Len(a)) : a[i] # 0
    \/ Limb(a, n \div LimbBits + 1) % 2^(n % LimbBits) # 0

RECURSIVE SmallTrailingZeros(_)
SmallTrailingZeros(n) == IF n % 2 = 1 THEN 0 ELSE 1 + SmallTrailingZeros(n \div 2)

\* the index of the least significant limb of a # 0 that is not 0
LowestLimb(a) == CHOOSE i \in 1..Len(a) : a[i] # 0 /\ \A j \in 1..(i - 1) : a[j] = 0

TrailingZerosFrom(a, z) == (z - 1) * LimbBits + SmallTrailingZeros(a[z])

\* the number of trailing zero bits of a # 0
TrailingZeros(a) == TrailingZerosFrom(a, LowestLimb(a))

IsOdd(a) == a # <<>> /\ a[1] % 2 = 1

\* floor(a / 2^n) or that plus one, whichever is nearer to (a + f) / 2^n,
\* ties to even, for n >= 1; f is 0 or, with sticky, a fraction 0 < f < 1
RoundHalfEven(Q, half, below) ==
    IF half /\ (below \/ IsOdd(Q)) THEN BigAdd(Q, <<1>>) ELSE Q

RoundedShift(a, n, sticky) ==
    RoundHalfEven(ShiftRight(a, n), Bit(a, n - 1) = 1, sticky \/ AnyLowBits(a, n - 1))

(***************************************************************************)
(* Python values.  t: "int", "float" or "exc" (a raised exception, named   *)
(* by k).  A number's k is "fin", "inf" or "nan"; a finite number is       *)
(* (-1)^s * m * 2^e, an int has e = 0, and a finite float is kept with m   *)
(* odd (or m = 0, e = 0) so that equal floats are equal records.           *)
(***************************************************************************)
Precision == 53
MinExp == -1074
MaxExpBits == 1024

PyInt(s, m) == [t |-> "int", k |-> "fin", s |-> IF m = <<>> THEN 0 ELSE s, m |-> m, e |-> 0]
SmallInt(n) == IF n < 0 THEN PyInt(1, NatToBig(-n)) ELSE PyInt(0, NatToBig(n))
Inf(s) == [t |-> "float", k |-> "inf", s |-> s, m |-> <<>>, e |-> 0]
NaN == [t |-> "float", k |-> "nan", s |-> 0, m |-> <<>>, e |-> 0]
Zero(s) == [t |-> "float", k |-> "fin", s |-> s, m |-> <<>>, e |-> 0]
Raise(name) == [t |-> "exc", k |-> name, s |-> 0, m |-> <<>>, e |-> 0]

IsExc(x) == x.t = "exc"
IsZero(x) == x.k = "fin" /\ x.m = <<>>

Normal(s, m, e, z) ==
    [t |-> "float", k |-> "fin", s |-> s, m |-> ShiftRight(m, z), e |-> e + z]

\* the float (-1)^s * m * 2^e, which must be representable
MakeFloat(s, m, e) == IF m = <<>> THEN Zero(s) ELSE Normal(s, m, e, TrailingZeros(m))

\* (-1)^s * m * 2^e with m of at most Precision bits and e >= MinExp, as a
\* float: an infinity when it is beyond the largest float
Finite(s, m, e) ==
    IF m = <<>> THEN Zero(s)
    ELSE IF BitLength(m) + e > MaxExpBits THEN Inf(s)
    ELSE MakeFloat(s, m, e)

\* q is the exponent of the last bit the float can keep
RoundAt(s, m, e, sticky, q) ==
    Finite(s, IF q <= e THEN m ELSE RoundedShift(m, q - e, sticky), Max(q, e))

\* The binary64 nearest to (-1)^s * (m + f) * 2^e, ties to even, where f is 0
\* or, with sticky, some fraction 0 < f < 1 (and then m has at least
\* Precision + 2 bits); an infinity when it is beyond the largest float.
RoundBinary64(s, m, e, sticky) ==
    IF m = <<>> THEN Zero(s)
    ELSE RoundAt(s, m, e, sticky, Max(e + BitLength(m) - Precision, MinExp))

OverflowIfInf(r) == IF r.k = "inf" THEN Raise("OverflowError") ELSE r

\* float(x) for an int x: PyLong_AsDouble
ToFloat(x) ==
    IF x.t # "int" THEN x ELSE OverflowIfInf(RoundBinary64(x.s, x.m, 0, FALSE))

Xor(a, b) == (a + b) % 2

\* float * float
FloatMul(x, y) ==
    IF x.k = "nan" \/ y.k = "nan" THEN NaN
    ELSE IF x.k = "inf" \/ y.k = "inf"
    THEN (IF IsZero(x) \/ IsZero(y) THEN NaN ELSE Inf(Xor(x.s, y.s)))
    ELSE RoundBinary64(Xor(x.s, y.s), BigMul(x.m, y.m), x.e + y.e, FALSE)

\* (-1)^xs * a + (-1)^ys * b as a sign and a magnitude, c being BigCmp(a, b)
SignedSum(xs, a, ys, b, c) ==
    IF xs = ys THEN [s |-> xs, m |-> BigAdd(a, b)]
    ELSE IF c = 0 THEN [s |-> 0, m |-> <<>>]
    ELSE [s |-> IF c > 0 THEN xs ELSE ys,
          m |-> BigSub(IF c > 0 THEN a ELSE b, IF c > 0 THEN b ELSE a)]

ExactSum(xs, a, ys, b) == SignedSum(xs, a, ys, b, BigCmp(a, b))

RoundSum(sum, e) == RoundBinary64(sum.s, sum.m, e, FALSE)

\* x + y for finite x and y, not both zero, e the lesser of their exponents
AddAt(x, y, e) ==
    RoundSum(ExactSum(x.s, ShiftLeft(x.m, x.e - e), y.s, ShiftLeft(y.m, y.e - e)), e)

\* float + float
FloatAdd(x, y) ==
    IF x.k = "nan" \/ y.k = "nan" THEN NaN
    ELSE IF x.k = "inf" /\ y.k = "inf" THEN (IF x.s = y.s THEN x ELSE NaN)
    ELSE IF x.k = "inf" THEN x
    ELSE IF y.k = "inf" THEN y
    ELSE IF IsZero(x) /\ IsZero(y) THEN Zero(IF x.s = 1 /\ y.s = 1 THEN 1 ELSE 0)
    ELSE AddAt(x, y, Min(x.e, y.e))

RoundRatio(s, qr, e) == RoundBinary64(s, qr.q, e, qr.r # 0)

\* n more bits are given to m before the division
RoundQuotientAt(s, m, e, d, n) == RoundRatio(s, BigDivSmall(ShiftLeft(m, n), d), e - n)

\* The binary64 nearest to (-1)^s * m * 2^e / d for 1 <= d <= Base: the
\* quotient is taken with enough bits that its remainder is only a sticky bit.
RoundQuotient(s, m, e, d) ==
    IF m = <<>> THEN Zero(s)
    ELSE RoundQuotientAt(s, m, e, d,
                         Max(0, Precision + 2 + SmallBitLength(d) - BitLength(m)))

\* x / d for an int or float x and an int 1 <= d <= Base (which converts to a
\* float exactly): long_true_divide for an int x, float division otherwise
PyTrueDivSmall(x, d) ==
    IF IsExc(x) \/ x.k # "fin" THEN x
    ELSE IF x.t = "int" THEN OverflowIfInf(RoundQuotient(x.s, x.m, 0, d))
    ELSE RoundQuotient(x.s, x.m, x.e, d)

(***************************************************************************)
(* Python's binary operators on ints and floats: the sum and the product   *)
(* of two ints are exact, a mixed operation first converts the int operand *)
(* to a float, and an exception raised by an operand propagates.           *)
(***************************************************************************)
MulFloats(a, b) == IF IsExc(a) THEN a ELSE IF IsExc(b) THEN b ELSE FloatMul(a, b)

PyMul(x, y) ==
    IF IsExc(x) THEN x
    ELSE IF IsExc(y) THEN y
    ELSE IF x.t = "int" /\ y.t = "int" THEN PyInt(Xor(x.s, y.s), BigMul(x.m, y.m))
    ELSE MulFloats(ToFloat(x), ToFloat(y))

AddFloats(a, b) == IF IsExc(a) THEN a ELSE IF IsExc(b) THEN b ELSE FloatAdd(a, b)

IntOf(sum) == PyInt(sum.s, sum.m)

PyAdd(x, y) ==
    IF IsExc(x) THEN x
    ELSE IF IsExc(y) THEN y
    ELSE IF x.t = "int" /\ y.t = "int" THEN IntOf(ExactSum(x.s, x.m, y.s, y.m))
    ELSE AddFloats(ToFloat(x), ToFloat(y))

\* The whole number of hundredths nearest to t / 100 * 2^e, ties to even
HundredthsOf(t, e) == IF e >= 0 THEN ShiftLeft(t, e) ELSE RoundedShift(t, -e, FALSE)

\* The whole number of hundredths nearest to |x| for a finite x, ties to
\* even, taken on the exact value of x.
Hundredths(x) == HundredthsOf(BigMulSmall(x.m, 100), x.e)

\* Faulty variants of round(x, 2): one returns its argument unrounded, one
\* rounds a tie away from zero
Round2NoRounding(x) == x

Round2HalfUp(x) ==
    IF IsExc(x) THEN x
    ELSE IF x.k # "fin" \/ x.e >= 0 THEN x
    ELSE RoundQuotient(x.s,
                       BigAdd(ShiftRight(BigMulSmall(x.m, 100), -x.e),
                              NatToBig(Bit(BigMulSmall(x.m, 100), -x.e - 1))),
                       0, 100)

\* round(x, 2) for a float x (float.__round__, double_round): the exact value
\* of x is rounded to a whole number of hundredths, ties to even, and the
\* float nearest to that decimal is returned; an infinity, a NaN and a float
\* with no fractional bits round to themselves.
Round2(x) ==
    IF IsExc(x) THEN x
    ELSE IF x.k # "fin" \/ x.e >= 0 THEN x
    ELSE RoundQuotient(x.s, Hundredths(x), 0, 100)

\* x < y on ints and floats, by exact value: false whenever either is a NaN
Magnitude(x) == x.e + BitLength(x.m)

AlignedLess(x, y, e) == BigCmp(ShiftLeft(x.m, x.e - e), ShiftLeft(y.m, y.e - e)) < 0

MagLess(x, y) ==
    IF IsZero(y) THEN FALSE
    ELSE IF IsZero(x) THEN TRUE
    ELSE IF Magnitude(x) # Magnitude(y) THEN Magnitude(x) < Magnitude(y)
    ELSE AlignedLess(x, y, Min(x.e, y.e))

NumLess(x, y) ==
    IF x.k = "nan" \/ y.k = "nan" THEN FALSE
    ELSE IF x.k = "inf" THEN x.s = 1 /\ ~(y.k = "inf" /\ y.s = 1)
    ELSE IF y.k = "inf" THEN y.s = 0
    ELSE IF IsZero(x) /\ IsZero(y) THEN FALSE
    ELSE IF x.s # y.s THEN x.s = 1
    ELSE IF x.s = 0 THEN MagLess(x, y)
    ELSE MagLess(y, x)

\* The float a decimal literal denotes: the binary64 nearest to n / 10^places,
\* for 10^places <= Base (float("0.20") is Decimal(20, 2)).
Decimal(n, places) ==
    IF n < 0 THEN RoundQuotient(1, NatToBig(-n), 0, 10^places)
    ELSE RoundQuotient(0, NatToBig(n), 0, 10^places)

Digit(d) == <<"0", "1", "2", "3", "4", "5", "6", "7", "8", "9">>[d + 1]

RECURSIVE DigitsOf(_)
DigitsOf(a) ==
    IF a = <<>> THEN ""
    ELSE DigitsOf(BigDivSmall(a, 10).q) \o Digit(BigDivSmall(a, 10).r)

\* a number of hundredths, split by BigDivSmall(h, 100), in decimal: no
\* trailing zero, at least one decimal
CentsString(qr) ==
    (IF qr.q = <<>> THEN "0" ELSE DigitsOf(qr.q)) \o "." \o
    (IF qr.r % 10 = 0 THEN Digit(qr.r \div 10)
     ELSE Digit(qr.r \div 10) \o Digit(qr.r % 10))

ReprCents(x, h) ==
    IF BitLength(h) < 50 /\ RoundQuotient(x.s, h, 0, 100) = x
    THEN (IF x.s = 1 THEN "-" ELSE "") \o CentsString(BigDivSmall(h, 100))
    ELSE "(repr)"

\* repr(x), which str(x) and the f-string's "{cost}" give for a float: the
\* shortest decimal string that reads back as x.  For a float that is the
\* nearest one to a number of hundredths below 10^15 that string is the
\* number of hundredths itself, written without a trailing zero but with at
\* least one decimal; the other finite floats are outside this model of repr.
Repr(x) ==
    IF x.k = "nan" THEN "nan"
    ELSE IF x.k = "inf" THEN (IF x.s = 1 THEN "-inf" ELSE "inf")
    ELSE ReprCents(x, Hundredths(x))

(***************************************************************************)
(* estimate_uploadthing_cost                                               *)
(***************************************************************************)
MB_PER_GB == 1024
weeks_per_month == 4

\* a faulty variant of the default: 0.25
DefaultCostPerGbQuarter == Decimal(25, 2)

\* cost_per_gb: float = 0.20
DefaultCostPerGb == Decimal(20, 2)

\* an argument that the call does not pass, a variable not yet assigned
Omitted == [t |-> "omitted", k |-> "", s |-> 0, m |-> <<>>, e |-> 0]
Unset == [t |-> "unset", k |-> "", s |-> 0, m |-> <<>>, e |-> 0]

BindCostPerGb(c) == IF c = Omitted THEN DefaultCostPerGb ELSE c

\* Faulty variants of lines 10-14: a gigabyte of 1000 MB; the image volume
\* subtracted; a negative argument rejected with a ValueError
MonthlyUploadGbDecimalGb(v, vs, i, is) ==
    PyTrueDivSmall(
        PyMul(PyAdd(PyMul(v, vs), PyMul(i, is)), SmallInt(weeks_per_month)),
        1000)

MonthlyUploadGbMinusImages(v, vs, i, is) ==
    PyTrueDivSmall(
        PyMul(PyAdd(PyMul(v, vs), PyMul(PyMul(i, is), SmallInt(-1))),
              SmallInt(weeks_per_month)),
        MB_PER_GB)

MonthlyUploadGbValidated(v, vs, i, is) ==
    IF \E x \in {v, vs, i, is} : NumLess(x, Zero(0)) THEN Raise("ValueError")
    ELSE PyTrueDivSmall(
             PyMul(PyAdd(PyMul(v, vs), PyMul(i, is)), SmallInt(weeks_per_month)),
             MB_PER_GB)

\* lines 10-14
MonthlyUploadGb(v, vs, i, is) ==
    PyTrueDivSmall(
        PyMul(PyAdd(PyMul(v, vs), PyMul(i, is)), SmallInt(weeks_per_month)),
        MB_PER_GB)

\* Faulty variants of line 15: the rate added; the rate passed ignored
MonthlyCostSum(gb, c) == PyAdd(gb, c)

MonthlyCostDefaultRate(gb, c) == PyMul(gb, DefaultCostPerGb)

\* line 15
MonthlyCost(gb, c) == PyMul(gb, c)

\* the function as a whole: the value it returns, or the exception it raises
estimate_uploadthing_cost(v, vs, i, is, c) ==
    Round2(MonthlyCost(MonthlyUploadGb(v, vs, i, is), BindCostPerGb(c)))

(***************************************************************************)
(* The inputs.  Counts are Python ints of any size; sizes and the rate are *)
(* finite floats, or ints as the script itself passes them.                *)
(***************************************************************************)
MaxCount == 3
MaxImages == 1

\* 2^1024, the least positive int that float() cannot convert
HugeInt == PyInt(0, ShiftLeft(<<1>>, MaxExpBits))
\* 2^1023, a float a factor of two below overflow
HugeFloat == MakeFloat(0, <<1>>, MaxExpBits - 1)

VideoCounts == {SmallInt(n) : n \in -1..MaxCount} \cup {SmallInt(10), HugeInt}
VideoSizes ==
    {SmallInt(800), SmallInt(64), Zero(0), Decimal(3, 1), Decimal(-15, 1), HugeFloat}
ImageCounts == {SmallInt(n) : n \in 0..MaxImages} \cup {SmallInt(10)}
ImageSizes == {SmallInt(1), SmallInt(0), Decimal(5, 1)}
Rates == {Omitted, Decimal(5, 1), Zero(0), Decimal(-5, 1), SmallInt(1)}

Args(v, vs, i, is, c) ==
    [videos_per_week |-> v, video_size_mb |-> vs, images_per_week |-> i,
     image_size_mb |-> is, cost_per_gb |-> c]

\* line 19: estimate_uploadthing_cost(10, 800, 10, 1)
ScriptArgs == Args(SmallInt(10), SmallInt(800), SmallInt(10), SmallInt(1), Omitted)

HarnessArgs ==
    {Args(v, vs, i, is, c) : v \in VideoCounts, vs \in VideoSizes,
                             i \in ImageCounts, is \in ImageSizes, c \in Rates}

VARIABLES
    pc,                 \* where the run is
    caller,             \* "script": lines 19-20; "harness": a direct call
    args,               \* the arguments of the call
    params,             \* the function's parameters, once bound
    monthly_upload_gb,
    monthly_cost,
    cost,               \* the value returned
    exception,          \* the exception raised
    calls,              \* how many times the function has been entered
    stdout              \* the lines printed

vars == <<pc, caller, args, params, monthly_upload_gb, monthly_cost, cost,
          exception, calls, stdout>>

Init ==
    /\ pc = "call"
    /\ \/ caller = "script" /\ args = ScriptArgs
       \/ caller = "harness" /\ args \in HarnessArgs
    /\ params = Unset
    /\ monthly_upload_gb = Unset
    /\ monthly_cost = Unset
    /\ cost = Unset
    /\ exception = Unset
    /\ calls = 0
    /\ stdout = <<>>

\* lines 1-9: the parameters are bound, the default filling in for an
\* omitted cost_per_gb
Call ==
    /\ pc = "call"
    /\ params' = [args EXCEPT !.cost_per_gb = BindCostPerGb(@)]
    /\ calls' = calls + 1
    /\ pc' = "line10"
    /\ UNCHANGED <<caller, args, monthly_upload_gb, monthly_cost, cost, exception, stdout>>

\* lines 10-14
ComputeUploadGb ==
    /\ pc = "line10"
    /\ LET gb == MonthlyUploadGb(params.videos_per_week, params.video_size_mb,
                                 params.images_per_week, params.image_size_mb)
       IN  IF IsExc(gb)
           THEN /\ exception' = gb
                /\ pc' = "raised"
                /\ UNCHANGED monthly_upload_gb
           ELSE /\ monthly_upload_gb' = gb
                /\ pc' = "line15"
                /\ UNCHANGED exception
    /\ UNCHANGED <<caller, args, params, monthly_cost, cost, calls, stdout>>

\* line 15
ComputeCost ==
    /\ pc = "line15"
    /\ LET c == MonthlyCost(monthly_upload_gb, params.cost_per_gb)
       IN  IF IsExc(c)
           THEN /\ exception' = c
                /\ pc' = "raised"
                /\ UNCHANGED monthly_cost
           ELSE /\ monthly_cost' = c
                /\ pc' = "line16"
                /\ UNCHANGED exception
    /\ UNCHANGED <<caller, args, params, monthly_upload_gb, cost, calls, stdout>>

\* line 16
Return ==
    /\ pc = "line16"
    /\ cost' = Round2(monthly_cost)
    /\ pc' = "returned"
    /\ UNCHANGED <<caller, args, params, monthly_upload_gb, monthly_cost, exception, calls, stdout>>

\* line 20
PrintCost ==
    /\ pc = "returned"
    /\ caller = "script"
    /\ stdout' = Append(stdout, "Estimated monthly UploadThing cost: $" \o Repr(cost))
    /\ pc' = "exit"
    /\ UNCHANGED <<caller, args, params, monthly_upload_gb, monthly_cost, cost, exception, calls>>

Next == Call \/ ComputeUploadGb \/ ComputeCost \/ Return \/ PrintCost

Spec == Init /\ [][Next]_vars

(***************************************************************************)
(* Properties.  The arguments are numbers: counts are Python ints of any   *)
(* size, sizes and the rate are finite floats or ints.  Results are the    *)
(* floats CPython computes, an infinity and a NaN included.                *)
(***************************************************************************)
Returned == pc \in {"returned", "exit"}

\* x >= 0 and x < 0 as Python evaluates them on a finite number
NonNegative(x) == x.k = "fin" /\ ~NumLess(x, Zero(0))
Negative(x) == x.k = "fin" /\ NumLess(x, Zero(0))

Quantities(p) ==
    {p.videos_per_week, p.video_size_mb, p.images_per_week, p.image_size_mb}

AllNonNegative(p) == \A x \in Quantities(p) \cup {p.cost_per_gb} : NonNegative(x)

\* the floats 0.2, 6.26, 15.64, 0.12 and 0.13 by their bits (float.hex())
OneFifth == MakeFloat(0, <<19661, 6553, 13107, 102>>, -54)
SixTwentySix == MakeFloat(0, <<27525, 28835, 5242, 100>>, -49)
FifteenSixtyFour == MakeFloat(0, <<23593, 1310, 9175, 31>>, -46)
TwelveHundredths == MakeFloat(0, <<9175, 31457, 23592, 30>>, -53)

\* C1: whenever the function returns, the value returned is
\* (videos_per_week * video_size_mb + images_per_week * image_size_mb) * 4
\* / 1024 * cost_per_gb, rounded to 2 decimal places; the intermediate
\* monthly_upload_gb and monthly_cost are the stages of that formula.
C1_Formula ==
    Returned =>
        LET gb == PyTrueDivSmall(
                      PyMul(PyAdd(PyMul(params.videos_per_week, params.video_size_mb),
                                  PyMul(params.images_per_week, params.image_size_mb)),
                            SmallInt(4)),
                      1024)
        IN  /\ monthly_upload_gb = gb
            /\ monthly_cost = PyMul(gb, params.cost_per_gb)
            /\ cost = Round2(PyMul(gb, params.cost_per_gb))

\* a call that returned a value which rounding changed
C1_Witness ==
    /\ pc = "returned"
    /\ caller = "harness"
    /\ cost.k = "fin"
    /\ ~IsZero(cost)
    /\ cost # monthly_cost

\* C2: the script calls the function once, with (10, 800, 10, 1) and the
\* default rate, never fails, and prints exactly one line,
\* "Estimated monthly UploadThing cost: $6.26".
C2_ScriptOutput ==
    caller = "script" =>
        /\ args = Args(SmallInt(10), SmallInt(800), SmallInt(10), SmallInt(1), Omitted)
        /\ pc # "raised"
        /\ calls = (IF pc = "call" THEN 0 ELSE 1)
        /\ pc # "call" => params.cost_per_gb = OneFifth
        /\ Returned => cost = SixTwentySix
        /\ stdout = (IF pc = "exit"
                     THEN <<"Estimated monthly UploadThing cost: $6.26">>
                     ELSE <<>>)

C2_Witness == caller = "script" /\ pc = "exit" /\ Len(stdout) = 1

\* the values of S greater than x
Greater(S, x) == {y \in S : NumLess(x, y)}

\* the rates a call can run with
RateValues == {BindCostPerGb(c) : c \in Rates}

\* the bound arguments p with one of the five increased, the other four kept
Increased(p) ==
    {[p EXCEPT !.videos_per_week = y] : y \in Greater(VideoCounts, p.videos_per_week)}
    \cup {[p EXCEPT !.video_size_mb = y] : y \in Greater(VideoSizes, p.video_size_mb)}
    \cup {[p EXCEPT !.images_per_week = y] : y \in Greater(ImageCounts, p.images_per_week)}
    \cup {[p EXCEPT !.image_size_mb = y] : y \in Greater(ImageSizes, p.image_size_mb)}
    \cup {[p EXCEPT !.cost_per_gb = y] : y \in Greater(RateValues, p.cost_per_gb)}

Estimate(p) ==
    estimate_uploadthing_cost(p.videos_per_week, p.video_size_mb,
                              p.images_per_week, p.image_size_mb, p.cost_per_gb)

C5_DefaultRate ==
    (args.cost_per_gb = Omitted /\ (Returned \/ pc = "raised")) =>
        LET r == estimate_uploadthing_cost(args.videos_per_week, args.video_size_mb,
                                           args.images_per_week, args.image_size_mb,
                                           OneFifth)
        IN  IF pc = "raised" THEN exception = r ELSE cost = r

\* a call without a rate returned a cost that is not zero
C5_Witness ==
    /\ pc = "returned"
    /\ caller = "harness"
    /\ args.cost_per_gb = Omitted
    /\ cost.k = "fin"
    /\ ~IsZero(cost)

\* the float nearest to a whole number of hundredths that x is, if any
OnHundredths(x) == x = RoundQuotient(x.s, Hundredths(x), 0, 100)

\* C6, as the specification states it: every value returned is a whole number
\* of hundredths.
C6_AlwaysTwoDecimals == Returned => cost.k = "fin" /\ OnHundredths(cost)

\* C6: every finite value returned is a whole number of hundredths (the float
\* nearest to one); the value returned is an infinity or a NaN exactly when
\* the unrounded monthly_cost is.
C6_TwoDecimals ==
    Returned =>
        /\ cost.k = monthly_cost.k
        /\ cost.k = "fin" => OnHundredths(cost)

\* a finite value with a fraction was returned, and rounding made it
C6_Witness ==
    /\ Returned
    /\ cost.k = "fin"
    /\ cost.e < 0
    /\ monthly_cost # cost

TooLargeForFloat(x) == x.t = "int" /\ BitLength(x.m) > MaxExpBits

\* C8, as the specification states it: no call raises.
C8_NeverRaises == pc # "raised"

\* C8: no argument is rejected for its sign: a call with a negative argument
\* returns the rounded value of the formula, which may be negative.  The only
\* exception is Python's OverflowError, raised when an int operand is too
\* large to be converted to a float; here the int sizes are small, so that a
\* call raises only on a count of 2^1024 or more.
C8_NoValidation ==
    /\ pc = "raised" =>
           /\ exception = Raise("OverflowError")
           /\ \E x \in Quantities(params) : TooLargeForFloat(x)
    /\ (pc # "call" /\ \A x \in Quantities(params) : ~TooLargeForFloat(x)) =>
           pc # "raised"
    /\ (Returned /\ \E x \in Quantities(params) \cup {params.cost_per_gb} : Negative(x)) =>
           cost = Round2(PyMul(PyTrueDivSmall(
                                   PyMul(PyAdd(PyMul(params.videos_per_week,
                                                     params.video_size_mb),
                                               PyMul(params.images_per_week,
                                                     params.image_size_mb)),
                                         SmallInt(4)),
                                   1024),
                               params.cost_per_gb))

\* a call with a negative argument returned a negative cost
C8_Witness ==
    /\ Returned
    /\ \E x \in Quantities(params) \cup {params.cost_per_gb} : Negative(x)
    /\ Negative(cost)

\* C9: estimate_uploadthing_cost(10, 800, 10, 1, 0.50) computes the unrounded
\* 15.64453125 (4005 / 256) and returns 15.64.
C9_CustomRate ==
    args = Args(SmallInt(10), SmallInt(800), SmallInt(10), SmallInt(1),
                MakeFloat(0, <<1>>, -1)) =>
        /\ pc # "raised"
        /\ pc \in {"line16", "returned"} => monthly_cost = MakeFloat(0, NatToBig(4005), -8)
        /\ pc = "returned" => cost = FifteenSixtyFour

C9_Witness ==
    /\ pc = "returned"
    /\ params.cost_per_gb = MakeFloat(0, <<1>>, -1)
    /\ Quantities(params) = {SmallInt(10), SmallInt(800), SmallInt(1)}
    /\ params.videos_per_week = params.images_per_week
    /\ params.video_size_mb = SmallInt(800)

\* x is exactly halfway between two hundredths: 200 * |x| is an odd integer
Halfway(x) ==
    /\ x.k = "fin"
    /\ x.e < 0
    /\ ~AnyLowBits(BigMulSmall(x.m, 200), -x.e)
    /\ Bit(BigMulSmall(x.m, 200), -x.e) = 1

\* of the two whole numbers of hundredths around |x|, the even one
EvenNeighbour(x) ==
    IF IsOdd(ShiftRight(BigMulSmall(x.m, 100), -x.e))
    THEN BigAdd(ShiftRight(BigMulSmall(x.m, 100), -x.e), <<1>>)
    ELSE ShiftRight(BigMulSmall(x.m, 100), -x.e)

\* C10: when the unrounded monthly_cost is exactly halfway between two
\* hundredths, the value returned is the neighbour with the even last digit;
\* estimate_uploadthing_cost(1, 64, 0, 0, 0.5) computes 0.125 and returns
\* 0.12, not 0.13.
C10_HalfEven ==
    Returned =>
        /\ Halfway(monthly_cost) =>
               cost = RoundQuotient(monthly_cost.s, EvenNeighbour(monthly_cost), 0, 100)
        /\ args = Args(SmallInt(1), SmallInt(64), SmallInt(0), SmallInt(0),
                       MakeFloat(0, <<1>>, -1)) =>
               /\ monthly_cost = MakeFloat(0, <<1>>, -3)
               /\ cost = TwelveHundredths
               /\ cost # Decimal(13, 2)

\* the call of the example returned, from a cost exactly halfway
C10_Witness ==
    /\ pc = "returned"
    /\ args = Args(SmallInt(1), SmallInt(64), SmallInt(0), SmallInt(0),
                   MakeFloat(0, <<1>>, -1))
    /\ Halfway(monthly_cost)
====
